---- MODULE Spec2Model ----
(***************************************************************************)
(* A state-machine model of src/trans_folder.py: the batch subtitle        *)
(* translation pipeline (batch_translate, translate_batch,                 *)
(* translate_subtitle_file, the two retry loops and TransactionLog).       *)
(*                                                                         *)
(* The file system is a function from paths to contents, a content being   *)
(* the list of a subtitle file's cue texts.  The main thread of            *)
(* batch_translate is a program counter (pc); every future of the thread   *)
(* pool is a record with its own position.                                 *)
(***************************************************************************)
EXTENDS Integers, Sequences, FiniteSets, TLC

\* ------------------------------------------------------------------ bounds
\* Number of .srt files under the input folder.
MaxFiles == 3
\* Largest configured CHUNK_SIZE (--chunk-size) drawn by Init.
MaxChunkSize == 2
\* A transform stub fails its first k calls, k in 0..MaxFails, then succeeds.
MaxFails == 3
\* Largest max_retries argument tried on the retry loops alone.
MaxRetriesArg == 3

\* ------------------------------------------------------- program constants
MAX_RETRIES == 3
OVERWRITE_ORIGINAL == TRUE
USE_HF_TRANSLATOR == FALSE

\* ------------------------------------------------------------------- data
Files == 1..MaxFiles
Dirs == {"input", "temp_translated", "backup", "translated"}
Paths == Dirs \X Files

\* The content of a path that does not exist.  Every file has a cue or more.
NoFile == <<>>
\* No entry for a key of the checksum dictionary.
NoEntry == <<>>

\* The folder as found: the first file has two cues, the others one.
InitialContent(f) == IF f = 1 THEN <<"en", "en">> ELSE <<"en">>

full_path(f) == <<"input", f>>
\* A worker that would save its output over the file it read.
in_place_output_path(f) == <<"input", f>>
temp_output_path(f) == <<"temp_translated", f>>
backup_path(f) == <<"backup", f>>
dest_output_path(f) == <<"translated", f>>

Min(a, b) == IF a <= b THEN a ELSE b

\* hashlib.md5 over the bytes of the file: one digest per content.
compute_checksum(content) == <<"md5">> \o content

\* shutil.move(src, dst) of a file that exists: dst is replaced.
Move(f_s, src, dst) == [f_s EXCEPT ![dst] = f_s[src], ![src] = NoFile]
\* shutil.copy2(src, dst)
Copy(f_s, src, dst) == [f_s EXCEPT ![dst] = f_s[src]]

\* ------------------------------------------------------------ retry loops
\* The term mask of translate_subtitle_file: a term is wrapped before the
\* call and unwrapped after it.
Mask(text) == <<"__", text>>
Unmask(marked) == marked[2]
\* The external service, when it answers: the text comes back in Vietnamese.
ServiceAnswer(marked) == <<marked[1], "vi">>

RECURSIVE RetryLoop(_, _, _, _, _)
\* for attempt in range(max_retries): the stub raises on its first `stub`
\* calls.  trace lists the calls of the service and the sleeps, in order.
RetryLoop(attempt, stub, text, max_retries, trace) ==
    IF attempt >= max_retries
    THEN [raised |-> FALSE, text |-> text, trace |-> trace]
    ELSE LET called == Append(trace, "call") IN
         IF attempt >= stub
         THEN [raised |-> FALSE, text |-> ServiceAnswer(text), trace |-> called]
         ELSE IF attempt = max_retries - 1
              THEN [raised |-> TRUE, text |-> text, trace |-> called]
              ELSE RetryLoop(attempt + 1, stub, text, max_retries,
                             Append(called, "sleep"))

\* A retry loop that makes one attempt too many: range(max_retries + 1).
translate_with_retry_one_more(stub, text, max_retries) ==
    RetryLoop(0, stub, text, max_retries + 1, <<>>)

translate_with_retry(stub, text, max_retries) ==
    RetryLoop(0, stub, text, max_retries, <<>>)

RECURSIVE HfRetryLoop(_, _, _, _, _)
HfRetryLoop(attempt, stub, text, max_retries, trace) ==
    IF attempt >= max_retries
    THEN [raised |-> FALSE, text |-> text, trace |-> trace]
    ELSE LET called == Append(trace, "call") IN
         IF attempt >= stub
         THEN [raised |-> FALSE, text |-> ServiceAnswer(text), trace |-> called]
         ELSE IF attempt = max_retries - 1
              THEN [raised |-> TRUE, text |-> text, trace |-> called]
              ELSE HfRetryLoop(attempt + 1, stub, text, max_retries,
                               Append(called, "sleep"))

hf_translate_with_retry(stub, text, max_retries) ==
    HfRetryLoop(0, stub, text, max_retries, <<>>)

\* The default of the max_retries parameter is the value MAX_RETRIES had when
\* the def statement ran.
DefaultMaxRetries == MAX_RETRIES

NumCalls(trace) == Cardinality({i \in 1..Len(trace) : trace[i] = "call"})

\* One cue of translate_subtitle_file (lines 419-433): the exception of an
\* exhausted retry loop is caught and the cue keeps its text.
TranslateCue(stub, text) ==
    LET marked == Mask(text)
        r == IF USE_HF_TRANSLATOR
             THEN hf_translate_with_retry(stub, marked, DefaultMaxRetries)
             ELSE translate_with_retry(stub, marked, DefaultMaxRetries)
    IN [text |-> IF r.raised THEN text ELSE Unmask(r.text),
        failed |-> r.raised,
        calls |-> NumCalls(r.trace)]

\* translate_subtitle_file on a file that parses: stubs[i] is the behaviour
\* of the service on cue i.
translate_subtitle_file(content, stubs) ==
    LET cues == [i \in 1..Len(content) |-> TranslateCue(stubs[i], content[i])]
        RECURSIVE Sum(_)
        Sum(n) == IF n = 0 THEN 0 ELSE cues[n].calls + Sum(n - 1)
    IN [output |-> [i \in 1..Len(content) |-> cues[i].text],
        untranslated |-> \E i \in 1..Len(content) : cues[i].failed,
        calls |-> Sum(Len(content))]

\* ---------------------------------------------------------- transaction log
RECURSIVE RollbackFrom(_, _, _)
\* TransactionLog.rollback: the entries log[k], log[k-1], ..., log[1] in turn.
\* A "move" entry is handled by shutil.move(src, dest), which raises
\* FileNotFoundError when src does not exist; nothing catches it.
RollbackFrom(lg, k, f_s) ==
    IF k = 0
    THEN [fs |-> f_s, error |-> "none"]
    ELSE LET action == lg[k][1]
             src == lg[k][2]
             dest == lg[k][3]
         IN IF action = "copy"
            THEN IF f_s[dest] # NoFile
                 THEN RollbackFrom(lg, k - 1, Move(f_s, dest, src))
                 ELSE RollbackFrom(lg, k - 1, f_s)
            ELSE IF action = "move"
                 THEN IF f_s[src] = NoFile
                      THEN [fs |-> f_s, error |-> "FileNotFoundError"]
                      ELSE RollbackFrom(lg, k - 1, Move(f_s, src, dest))
                 ELSE RollbackFrom(lg, k - 1, f_s)

rollback(lg, f_s) == RollbackFrom(lg, Len(lg), f_s)

\* TransactionLog.add_entry
add_entry(lg, action, src, dest) == Append(lg, <<action, src, dest>>)

\* ------------------------------------------------------ discovery, chunks
\* load_translated_checksums: the dictionary of the store file, or {}.
EmptyChecksums == [f \in Files |-> NoEntry]
load_translated_checksums(store) ==
    IF store.exists THEN store.data ELSE EmptyChecksums

\* Lines 474-485: the .srt files whose stored checksum is not the checksum of
\* their content, in the order of the walk.
AllFilesSeq == [i \in 1..MaxFiles |-> i]
ShouldSkip(checksums, f_s, f) ==
    /\ checksums[f] # NoEntry
    /\ checksums[f] = compute_checksum(f_s[full_path(f)])
Discover(checksums, f_s) ==
    SelectSeq(AllFilesSeq, LAMBDA f : ~ShouldSkip(checksums, f_s, f))

\* Lines 490-493: files_to_process[i:i + CHUNK_SIZE] for i = 0, CHUNK_SIZE, ...
NumChunks(ftp, cs) == (Len(ftp) + cs - 1) \div cs
files_chunks(ftp, cs) ==
    [k \in 1..NumChunks(ftp, cs) |->
        SubSeq(ftp, (k - 1) * cs + 1, Min(k * cs, Len(ftp)))]

\* ------------------------------------------------------------ commit phase
RECURSIVE CommitFrom(_, _, _, _)
\* Lines 538-554 for processed[k..]: backup, move, checksum of the final file.
CommitFrom(processed, k, f_s, checksums) ==
    IF k > Len(processed)
    THEN [fs |-> f_s, checksums |-> checksums, error |-> "none"]
    ELSE LET f == processed[k] IN
         IF f_s[temp_output_path(f)] = NoFile
         THEN [fs |-> IF OVERWRITE_ORIGINAL
                      THEN Copy(f_s, full_path(f), backup_path(f))
                      ELSE f_s,
               checksums |-> checksums, error |-> "FileNotFoundError"]
         ELSE LET backed == IF OVERWRITE_ORIGINAL
                            THEN Copy(f_s, full_path(f), backup_path(f))
                            ELSE f_s
                  final_path == IF OVERWRITE_ORIGINAL
                                THEN full_path(f) ELSE dest_output_path(f)
                  moved == Move(backed, temp_output_path(f), final_path)
              IN CommitFrom(processed, k + 1, moved,
                            [checksums EXCEPT
                                ![f] = compute_checksum(moved[final_path])])

RECURSIVE DiscardFrom(_, _, _)
\* Lines 558-561: os.remove of the temp output of every processed file.
DiscardFrom(processed, k, f_s) ==
    IF k > Len(processed)
    THEN f_s
    ELSE DiscardFrom(processed, k + 1,
                     [f_s EXCEPT ![temp_output_path(processed[k])] = NoFile])

\* ------------------------------------------------------------------ state
VARIABLES
    run,                  \* invocations of batch_translate started so far
    pc,                   \* position of the main thread in batch_translate
    exc,                  \* the exception batch_translate raised, or "none"
    frontend,             \* "cli": batch_translate(folder); "gui": with
                          \* progress_callback and cancel_flag (an Event)
    cancel_set,           \* cancel_flag.is_set()
    chunk_size,           \* CHUNK_SIZE
    input_folder,         \* [writable, system]: os.access, under /usr
    fs,                   \* the file system: Paths -> content or NoFile
    store_file,           \* translated_files.json: [exists, data]
    translated_checksums, \* the dictionary in memory
    files_to_process,
    chunk,                \* the loop variable of line 499: a chunk index
    futures,              \* one record per submitted future
    fut_idx,              \* the loop of line 516
    res_idx,              \* the loop of line 520
    pending_exc,          \* the exception in flight inside the try block
    log,                  \* transaction_log.log
    processed_files,
    all_success,
    progress,             \* arguments of the last progress_callback call
    transform_calls,      \* calls of the external service in this run
    untranslated,         \* files a worker saved with a cue left untranslated
    rolled_back,          \* rollback() was invoked in this run
    store_saved,          \* save_translated_checksums was called in this run
    pre_fs,               \* the file system when this run started
    pre_store,            \* the store file when this run started
    retry_in,             \* input of a retry loop run on its own
    retry_out,            \* its outcome
    main_out              \* main with --max-retries, then one cue translated

vars == <<run, pc, exc, frontend, cancel_set, chunk_size, input_folder, fs,
          store_file, translated_checksums, files_to_process, chunk, futures,
          fut_idx, res_idx, pending_exc, log, processed_files, all_success,
          progress, transform_calls, untranslated, rolled_back, store_saved,
          pre_fs, pre_store, retry_in, retry_out, main_out>>

config_vars == <<frontend, chunk_size, input_folder>>
retry_vars == <<retry_in, retry_out, main_out>>

RetryIdle == [stub |-> 0, text |-> Mask("en"), max_retries |-> 0, hf |-> FALSE]
NoOutcome == [done |-> FALSE, raised |-> FALSE, text |-> Mask("en"),
              trace |-> <<>>]
NoMainOutcome == [done |-> FALSE, max_retries |-> 0, calls |-> 0,
                  failed |-> FALSE]

InitialFs ==
    [p \in Paths |-> IF p[1] = "input" THEN InitialContent(p[2]) ELSE NoFile]

\* The store a folder can hold when the pipeline is started: none, or the
\* checksums of the files MaxFiles.., or of every file.
StoreWith(S) ==
    [exists |-> TRUE,
     data |-> [f \in Files |-> IF f \in S
                               THEN compute_checksum(InitialContent(f))
                               ELSE NoEntry]]
InitialStores ==
    {[exists |-> FALSE, data |-> EmptyChecksums], StoreWith({MaxFiles}),
     StoreWith(Files)}

Ended == {"returned", "raised"}

Init ==
    /\ run = 0
    /\ pc = "idle"
    /\ exc = "none"
    /\ frontend \in {"cli", "gui"}
    /\ cancel_set = FALSE
    /\ chunk_size \in 1..MaxChunkSize
    /\ input_folder \in [writable : BOOLEAN, system : BOOLEAN]
    /\ fs = InitialFs
    /\ store_file \in InitialStores
    /\ translated_checksums = EmptyChecksums
    /\ files_to_process = <<>>
    /\ chunk = 0
    /\ futures = <<>>
    /\ fut_idx = 0
    /\ res_idx = 0
    /\ pending_exc = "none"
    /\ log = <<>>
    /\ processed_files = <<>>
    /\ all_success = TRUE
    /\ progress = <<0, 0>>
    /\ transform_calls = 0
    /\ untranslated = {}
    /\ rolled_back = FALSE
    /\ store_saved = FALSE
    /\ pre_fs = fs
    /\ pre_store = store_file
    /\ retry_in = RetryIdle
    /\ retry_out = NoOutcome
    /\ main_out = NoMainOutcome

\* ------------------------------------------------------------ main thread
\* The flag is never looked at.
CancelIgnored == FALSE

\* `cancel_flag and cancel_flag.is_set()` (lines 441, 501, 517)
CancelRequested == frontend = "gui" /\ cancel_set

Chunks == files_chunks(files_to_process, chunk_size)

\* Lines 458-495: the permission check, the store, the walk, the chunks.
batch_translate_begin ==
    /\ run' = run + 1
    /\ chunk' = 0
    /\ futures' = <<>>
    /\ fut_idx' = 0
    /\ res_idx' = 0
    /\ pending_exc' = "none"
    /\ log' = <<>>
    /\ processed_files' = <<>>
    /\ all_success' = TRUE
    /\ progress' = <<0, 0>>
    /\ transform_calls' = 0
    /\ untranslated' = {}
    /\ rolled_back' = FALSE
    /\ store_saved' = FALSE
    /\ pre_fs' = fs
    /\ pre_store' = store_file
    /\ IF ~input_folder.writable
       THEN /\ pc' = "raised"
            /\ exc' = "PermissionError"
            /\ translated_checksums' = EmptyChecksums
            /\ files_to_process' = <<>>
       ELSE LET checksums == load_translated_checksums(store_file)
                found == Discover(checksums, fs)
            IN /\ translated_checksums' = checksums
               /\ files_to_process' = found
               /\ exc' = "none"
               /\ pc' = IF found = <<>> THEN "returned" ELSE "submit"
    /\ UNCHANGED <<fs, store_file, cancel_set, config_vars, retry_vars>>

\* The first invocation of batch_translate.
Start ==
    /\ pc = "idle"
    /\ batch_translate_begin

\* The pipeline is started once more on the folder as the first run left it,
\* after a first run that went through its commit phase.
Rerun ==
    /\ pc \in Ended
    /\ run = 1
    /\ store_saved
    /\ ~rolled_back
    /\ batch_translate_begin

NewFuture ==
    [st |-> "queued", arg |-> 0, done |-> 0, error |-> "none",
     cue |-> 0, attempt |-> 0, out |-> <<>>, unt |-> FALSE]

\* Line 499, `for chunk in files_chunks`: the loop variable is bound to the
\* next chunk, or the loop ends and the loop of line 516 begins.
NextChunk ==
    /\ pc = "submit"
    /\ IF chunk = Len(Chunks)
       THEN /\ pc' = "collect_check"
            /\ fut_idx' = 1
            /\ UNCHANGED chunk
       ELSE /\ chunk' = chunk + 1
            /\ pc' = "line501"
            /\ UNCHANGED fut_idx
    /\ UNCHANGED futures
    /\ UNCHANGED <<run, exc, cancel_set, config_vars, fs, store_file,
                   translated_checksums, files_to_process, res_idx,
                   pending_exc, log, processed_files, all_success, progress,
                   transform_calls, untranslated, rolled_back, store_saved,
                   pre_fs, pre_store, retry_vars>>

\* Lines 501-503: the look at the flag before a chunk is submitted.
SubmitCheck ==
    /\ pc = "line501"
    /\ IF CancelRequested
       THEN /\ pc' = "collect_check"
            /\ fut_idx' = 1
       ELSE /\ pc' = "line504"
            /\ UNCHANGED fut_idx
    /\ UNCHANGED <<chunk, futures>>
    /\ UNCHANGED <<run, exc, cancel_set, config_vars, fs, store_file,
                   translated_checksums, files_to_process, res_idx,
                   pending_exc, log, processed_files, all_success, progress,
                   transform_calls, untranslated, rolled_back, store_saved,
                   pre_fs, pre_store, retry_vars>>

\* Lines 504-514: executor.submit of the lambda; the flag is not looked at
\* again.
SubmitChunk ==
    /\ pc = "line504"
    /\ futures' = Append(futures, NewFuture)
    /\ pc' = "submit"
    /\ UNCHANGED <<chunk, fut_idx>>
    /\ UNCHANGED <<run, exc, cancel_set, config_vars, fs, store_file,
                   translated_checksums, files_to_process, res_idx,
                   pending_exc, log, processed_files, all_success, progress,
                   transform_calls, untranslated, rolled_back, store_saved,
                   pre_fs, pre_store, retry_vars>>

\* ------------------------------------------------------------ pool threads
InCall == {"running", "infile", "cue", "save", "line449", "line455"}
Running == {j \in 1..Len(futures) : futures[j].st \in InCall \cup {"taken"}}
Complete(j) == futures[j].st \in {"done", "raised"}

\* The chunk the lambda of line 505 hands to translate_batch: the value the
\* enclosing function's variable `chunk` has when the pool thread calls it.
LambdaChunk == chunk

\* A pool thread (max_workers = CHUNK_SIZE) takes the next work item of the
\* queue.
WorkerTake(j) ==
    /\ futures[j].st = "queued"
    /\ \A i \in 1..(j - 1) : futures[i].st # "queued"
    /\ Cardinality(Running) < chunk_size
    /\ futures' = [futures EXCEPT ![j].st = "taken"]
    /\ UNCHANGED <<run, pc, exc, cancel_set, config_vars, fs, store_file,
                   translated_checksums, files_to_process, chunk, fut_idx,
                   res_idx, pending_exc, log, processed_files, all_success,
                   progress, transform_calls, untranslated, rolled_back,
                   store_saved, pre_fs, pre_store, retry_vars>>

\* The thread calls the lambda of the work item it took, which reads `chunk`
\* and calls translate_batch.
WorkerStart(j) ==
    /\ futures[j].st = "taken"
    /\ futures' = [futures EXCEPT ![j].st = "running", ![j].arg = LambdaChunk]
    /\ UNCHANGED <<run, pc, exc, cancel_set, config_vars, fs, store_file,
                   translated_checksums, files_to_process, chunk, fut_idx,
                   res_idx, pending_exc, log, processed_files, all_success,
                   progress, transform_calls, untranslated, rolled_back,
                   store_saved, pre_fs, pre_store, retry_vars>>

\* The service as seen over one cue: it answers at once, after one failure,
\* or fails MaxFails times in a row; these give every output a cue can get
\* (the retry loops on their own, below, meet every stub of 0..MaxFails).
WorkerStubs == {0, 1, MaxFails}

\* translate_batch, line 440, the head of the loop over files_chunk.  After
\* the last file the call returns its results (line 456).  Before a file the
\* flag is looked at (lines 441-442): with the flag set the call raises
\* Exception; otherwise it goes on to the file ("infile") and does not look at
\* the flag again before the next file.
WorkerPoll(j) ==
    /\ futures[j].st = "running"
    /\ futures' = IF futures[j].done = Len(Chunks[futures[j].arg])
                  THEN [futures EXCEPT ![j].st = "done"]
                  ELSE IF CancelRequested
                       THEN [futures EXCEPT ![j].st = "raised",
                                            ![j].error = "Exception"]
                       ELSE [futures EXCEPT ![j].st = "infile"]
    /\ UNCHANGED <<run, pc, exc, cancel_set, config_vars, fs, store_file,
                   translated_checksums, files_to_process, chunk, fut_idx,
                   res_idx, pending_exc, log, processed_files, all_success,
                   progress, transform_calls, untranslated, rolled_back,
                   store_saved, pre_fs, pre_store, retry_vars>>

\* The frame of a step of a call of translate_batch.
worker_frame ==
    <<run, pc, exc, cancel_set, config_vars, store_file,
      translated_checksums, files_to_process, chunk, fut_idx, res_idx,
      pending_exc, processed_files, all_success, rolled_back, store_saved,
      pre_fs, pre_store, retry_vars>>

\* The file the call of future j is at: files_chunk[i] of line 440.
FileOf(j) == Chunks[futures[j].arg][futures[j].done + 1]

\* The handler of line 450 itself raises NameError at line 451 (`file` is not
\* defined), so line 452 never appends its "delete" entry.
RaisedInHandler(j) ==
    [futures EXCEPT ![j].st = "raised", ![j].error = "NameError",
                    ![j].cue = 0, ![j].attempt = 0, ![j].out = <<>>,
                    ![j].unt = FALSE]

\* Lines 444-446 and 415: pysrt.open reads the file or raises.
WorkerOpen(j) ==
    /\ futures[j].st = "infile"
    /\ \E ok \in BOOLEAN :
           futures' = IF ok
                      THEN [futures EXCEPT ![j].st = "cue", ![j].cue = 1,
                                           ![j].attempt = 0, ![j].out = <<>>,
                                           ![j].unt = FALSE]
                      ELSE RaisedInHandler(j)
    /\ UNCHANGED <<fs, log, progress, transform_calls, untranslated>>
    /\ UNCHANGED worker_frame

\* One call of the service for the cue at hand (line 391, or 404), in the
\* loop of line 389 run with the default max_retries.  The service answers:
\* lines 425-430 unmask the answer and the next cue follows.  It raises: the
\* thread sleeps (line 398) before its next attempt, or, at the last attempt,
\* the exception reaches line 431 and the cue keeps its text.
WorkerCall(j) ==
    /\ futures[j].st = "cue"
    /\ LET content == fs[full_path(FileOf(j))]
           c == futures[j].cue
           a == futures[j].attempt
           last == c = Len(content)
           next_cue(text, failed) ==
               [futures EXCEPT ![j].out = Append(@, text),
                               ![j].unt = @ \/ failed,
                               ![j].attempt = 0,
                               ![j].cue = IF last THEN 0 ELSE c + 1,
                               ![j].st = IF last THEN "save" ELSE "cue"]
       IN \E answers \in BOOLEAN :
              futures' =
                  IF answers
                  THEN next_cue(Unmask(ServiceAnswer(Mask(content[c]))),
                                FALSE)
                  ELSE IF a = DefaultMaxRetries - 1
                       THEN next_cue(content[c], TRUE)
                       ELSE [futures EXCEPT ![j].attempt = a + 1]
    /\ transform_calls' = transform_calls + 1
    /\ UNCHANGED <<fs, log, progress, untranslated>>
    /\ UNCHANGED worker_frame

\* Line 434: subs.save writes the temp output or raises.
WorkerSave(j) ==
    /\ futures[j].st = "save"
    /\ LET f == FileOf(j)
       IN \E ok \in BOOLEAN :
          IF ok
          THEN /\ fs' = [fs EXCEPT ![temp_output_path(f)] = futures[j].out]
               /\ untranslated' = IF futures[j].unt
                                  THEN untranslated \cup {f}
                                  ELSE untranslated \ {f}
               /\ futures' = [futures EXCEPT ![j].st = "line449",
                                             ![j].out = <<>>,
                                             ![j].unt = FALSE]
          ELSE /\ futures' = RaisedInHandler(j)
               /\ UNCHANGED <<fs, untranslated>>
    /\ UNCHANGED <<log, progress, transform_calls>>
    /\ UNCHANGED worker_frame

\* Lines 447-449: the result is kept and the "move" entry appended to the
\* shared log.
WorkerLog(j) ==
    /\ futures[j].st = "line449"
    /\ log' = add_entry(log, "move", temp_output_path(FileOf(j)),
                        full_path(FileOf(j)))
    /\ futures' = [futures EXCEPT ![j].st = "line455"]
    /\ UNCHANGED <<fs, progress, transform_calls, untranslated>>
    /\ UNCHANGED worker_frame

\* Lines 454-455: progress_callback(i + 1, len(files_chunk)) when there is a
\* callback; the call is then back at the head of its loop.
WorkerStep(j) ==
    /\ futures[j].st = "line455"
    /\ LET files_chunk == Chunks[futures[j].arg]
           i == futures[j].done
       IN /\ progress' = IF frontend = "gui"
                         THEN <<i + 1, Len(files_chunk)>>
                         ELSE progress
          /\ futures' = [futures EXCEPT ![j].done = i + 1,
                                        ![j].st = "running"]
    /\ UNCHANGED <<fs, log, transform_calls, untranslated>>
    /\ UNCHANGED worker_frame

\* ------------------------------------------------------- collecting results
\* Lines 516-518: the next future of the list, unless the flag is set.
CollectCheck ==
    /\ pc = "collect_check"
    /\ pc' = IF fut_idx > Len(futures) \/ CancelRequested
             THEN "join" ELSE "collect_wait"
    /\ UNCHANGED <<run, exc, cancel_set, config_vars, fs, store_file,
                   translated_checksums, files_to_process, chunk, futures,
                   fut_idx, res_idx, pending_exc, log, processed_files,
                   all_success, progress, transform_calls, untranslated,
                   rolled_back, store_saved, pre_fs, pre_store, retry_vars>>

\* Line 519: future.result() returns the list or raises what the call raised.
CollectResult ==
    /\ pc = "collect_wait"
    /\ Complete(fut_idx)
    /\ IF futures[fut_idx].st = "raised"
       THEN /\ pending_exc' = futures[fut_idx].error
            /\ pc' = "join"
            /\ UNCHANGED res_idx
       ELSE /\ res_idx' = 1
            /\ pc' = "collect_entries"
            /\ UNCHANGED pending_exc
    /\ UNCHANGED <<run, exc, cancel_set, config_vars, fs, store_file,
                   translated_checksums, files_to_process, chunk, futures,
                   fut_idx, log, processed_files, all_success, progress,
                   transform_calls, untranslated, rolled_back, store_saved,
                   pre_fs, pre_store, retry_vars>>

\* Lines 520-528: one (True, rel_path, temp_output_path) of the results;
\* final_path = os.path.join(input_folder, rel_path) is the file's full path.
CollectEntry ==
    /\ pc = "collect_entries"
    /\ LET results == Chunks[futures[fut_idx].arg]
       IN IF res_idx > Len(results)
          THEN /\ fut_idx' = fut_idx + 1
               /\ pc' = "collect_check"
               /\ UNCHANGED <<res_idx, log>>
          ELSE /\ log' = add_entry(log, "move",
                                   temp_output_path(results[res_idx]),
                                   full_path(results[res_idx]))
               /\ res_idx' = res_idx + 1
               /\ UNCHANGED <<fut_idx, pc>>
    /\ UNCHANGED <<run, exc, cancel_set, config_vars, fs, store_file,
                   translated_checksums, files_to_process, chunk, futures,
                   pending_exc, processed_files, all_success, progress,
                   transform_calls, untranslated, rolled_back, store_saved,
                   pre_fs, pre_store, retry_vars>>

\* A `with` block whose exit would be shutdown(wait=False): the main thread
\* goes on while calls of translate_batch are queued or running.
JoinWithoutWait ==
    /\ pc = "join"
    /\ pc' = IF pending_exc # "none" THEN "except" ELSE "line537"
    /\ UNCHANGED <<run, exc, cancel_set, config_vars, fs, store_file,
                   translated_checksums, files_to_process, chunk, futures,
                   fut_idx, res_idx, pending_exc, log, processed_files,
                   all_success, progress, transform_calls, untranslated,
                   rolled_back, store_saved, pre_fs, pre_store, retry_vars>>

\* The end of the `with` block: ThreadPoolExecutor.__exit__ is
\* shutdown(wait=True), on the normal path and on the exceptional one.
Join ==
    /\ pc = "join"
    /\ \A j \in 1..Len(futures) : Complete(j)
    /\ pc' = IF pending_exc # "none" THEN "except" ELSE "line537"
    /\ UNCHANGED <<run, exc, cancel_set, config_vars, fs, store_file,
                   translated_checksums, files_to_process, chunk, futures,
                   fut_idx, res_idx, pending_exc, log, processed_files,
                   all_success, progress, transform_calls, untranslated,
                   rolled_back, store_saved, pre_fs, pre_store, retry_vars>>

\* Lines 533-536: rollback, then the exception is raised again; an exception
\* of rollback itself takes its place.
Except ==
    /\ pc = "except"
    /\ LET r == rollback(log, fs)
       IN /\ fs' = r.fs
          /\ exc' = IF r.error # "none" THEN r.error ELSE pending_exc
    /\ rolled_back' = TRUE
    /\ pc' = "raised"
    /\ UNCHANGED <<run, cancel_set, config_vars, store_file,
                   translated_checksums, files_to_process, chunk, futures,
                   fut_idx, res_idx, pending_exc, log, processed_files,
                   all_success, progress, transform_calls, untranslated,
                   store_saved, pre_fs, pre_store, retry_vars>>

\* save_translated_checksums: json.dump of the dictionary over the file.
save_translated_checksums(data) == [exists |-> TRUE, data |-> data]

\* Lines 537-562.  With a cancel_flag, `cancel_flag()` calls a
\* threading.Event: TypeError, outside any try.  Without one the commit loop
\* runs over processed_files and the store is saved.
Line537 ==
    /\ pc = "line537"
    /\ IF all_success /\ frontend = "gui"
       THEN /\ pc' = "raised"
            /\ exc' = "TypeError"
            /\ UNCHANGED <<fs, translated_checksums, store_file, store_saved>>
       ELSE IF all_success
            THEN LET c == CommitFrom(processed_files, 1, fs,
                                     translated_checksums)
                 IN /\ fs' = c.fs
                    /\ translated_checksums' = c.checksums
                    /\ IF c.error # "none"
                       THEN /\ pc' = "raised"
                            /\ exc' = c.error
                            /\ UNCHANGED <<store_file, store_saved>>
                       ELSE /\ store_file' =
                                 save_translated_checksums(c.checksums)
                            /\ store_saved' = TRUE
                            /\ pc' = "line563"
                            /\ UNCHANGED exc
            ELSE /\ fs' = DiscardFrom(processed_files, 1, fs)
                 /\ pc' = "line563"
                 /\ UNCHANGED <<exc, translated_checksums, store_file,
                                store_saved>>
    /\ UNCHANGED <<run, cancel_set, config_vars, files_to_process, chunk,
                   futures, fut_idx, res_idx, pending_exc, log,
                   processed_files, all_success, progress, transform_calls,
                   untranslated, rolled_back, pre_fs, pre_store, retry_vars>>

\* Lines 563-574.  A folder under /usr: PermissionError.  Otherwise the last
\* try block: rollback_manager is not defined, the NameError is caught and
\* the handler raises NameError again at line 573.
Line563 ==
    /\ pc = "line563"
    /\ pc' = "raised"
    /\ exc' = IF input_folder.system THEN "PermissionError" ELSE "NameError"
    /\ UNCHANGED <<run, cancel_set, config_vars, fs, store_file,
                   translated_checksums, files_to_process, chunk, futures,
                   fut_idx, res_idx, pending_exc, log, processed_files,
                   all_success, progress, transform_calls, untranslated,
                   rolled_back, store_saved, pre_fs, pre_store, retry_vars>>

\* TranslatorGUI.cancel_translation: the button is enabled by the first
\* start_translation and the Event is never cleared.  A click after
\* batch_translate has ended changes nothing of that run.
SetCancel ==
    /\ frontend = "gui"
    /\ run >= 1
    /\ pc \notin Ended
    /\ ~cancel_set
    /\ cancel_set' = TRUE
    /\ UNCHANGED <<run, pc, exc, config_vars, fs, store_file,
                   translated_checksums, files_to_process, chunk, futures,
                   fut_idx, res_idx, pending_exc, log, processed_files,
                   all_success, progress, transform_calls, untranslated,
                   rolled_back, store_saved, pre_fs, pre_store, retry_vars>>

Next ==
    \/ Start
    \/ NextChunk
    \/ SubmitCheck
    \/ SubmitChunk
    \/ \E j \in 1..Len(futures) : WorkerTake(j)
    \/ \E j \in 1..Len(futures) : WorkerStart(j)
    \/ \E j \in 1..Len(futures) : WorkerPoll(j)
    \/ \E j \in 1..Len(futures) : WorkerOpen(j)
    \/ \E j \in 1..Len(futures) : WorkerCall(j)
    \/ \E j \in 1..Len(futures) : WorkerSave(j)
    \/ \E j \in 1..Len(futures) : WorkerLog(j)
    \/ \E j \in 1..Len(futures) : WorkerStep(j)
    \/ CollectCheck
    \/ CollectResult
    \/ CollectEntry
    \/ Join
    \/ Except
    \/ Line537
    \/ Line563
    \/ SetCancel

Spec == Init /\ [][Next]_vars

\* ------------------------------------------- the retry loops on their own
RetryInputs ==
    [stub : 0..MaxFails, text : {Mask("en"), Mask("vi")},
     max_retries : 0..MaxRetriesArg, hf : BOOLEAN]

RetryInit ==
    /\ run = 0
    /\ pc = "idle"
    /\ exc = "none"
    /\ frontend = "cli"
    /\ cancel_set = FALSE
    /\ chunk_size = 1
    /\ input_folder = [writable |-> TRUE, system |-> FALSE]
    /\ fs = InitialFs
    /\ store_file = [exists |-> FALSE, data |-> EmptyChecksums]
    /\ translated_checksums = EmptyChecksums
    /\ files_to_process = <<>>
    /\ chunk = 0
    /\ futures = <<>>
    /\ fut_idx = 0
    /\ res_idx = 0
    /\ pending_exc = "none"
    /\ log = <<>>
    /\ processed_files = <<>>
    /\ all_success = TRUE
    /\ progress = <<0, 0>>
    /\ transform_calls = 0
    /\ untranslated = {}
    /\ rolled_back = FALSE
    /\ store_saved = FALSE
    /\ pre_fs = fs
    /\ pre_store = store_file
    /\ retry_in \in RetryInputs
    /\ retry_out = NoOutcome
    /\ main_out = NoMainOutcome

pipeline_vars ==
    <<run, pc, exc, frontend, cancel_set, chunk_size, input_folder, fs,
      store_file, translated_checksums, files_to_process, chunk, futures,
      fut_idx, res_idx, pending_exc, log, processed_files, all_success,
      progress, transform_calls, untranslated, rolled_back, store_saved,
      pre_fs, pre_store>>

Outcome(r) ==
    [done |-> TRUE, raised |-> r.raised, text |-> r.text, trace |-> r.trace]

CallTranslateWithRetry ==
    /\ ~retry_out.done
    /\ ~retry_in.hf
    /\ retry_out' = Outcome(translate_with_retry(retry_in.stub, retry_in.text,
                                                 retry_in.max_retries))
    /\ UNCHANGED <<retry_in, main_out, pipeline_vars>>

CallHfTranslateWithRetry ==
    /\ ~retry_out.done
    /\ retry_in.hf
    /\ retry_out' = Outcome(hf_translate_with_retry(retry_in.stub,
                                                    retry_in.text,
                                                    retry_in.max_retries))
    /\ UNCHANGED <<retry_in, main_out, pipeline_vars>>

RetryNext == CallTranslateWithRetry \/ CallHfTranslateWithRetry

SpecRetry == RetryInit /\ [][RetryNext]_vars

\* -------------------------------------- main with the --max-retries option
\* main, lines 594-602: MAX_RETRIES = args.max_retries and USE_HF_TRANSLATOR =
\* args.hf assign the module's globals.  Then one cue of
\* translate_subtitle_file, lines 420-424: the retry function is called
\* without max_retries, so the loop runs with the parameter's default
\* (DefaultMaxRetries), whatever the global holds by now.
main_translate_cue ==
    /\ ~main_out.done
    /\ LET marked_text == retry_in.text
           r == IF retry_in.hf
                THEN hf_translate_with_retry(retry_in.stub, marked_text,
                                             DefaultMaxRetries)
                ELSE translate_with_retry(retry_in.stub, marked_text,
                                          DefaultMaxRetries)
       IN main_out' = [done |-> TRUE,
                       max_retries |-> retry_in.max_retries,
                       calls |-> NumCalls(r.trace),
                       failed |-> r.raised]
    /\ UNCHANGED <<retry_in, retry_out, pipeline_vars>>

MainNext == main_translate_cue

SpecMain == RetryInit /\ [][MainNext]_vars

\* ------------------------------------------------ two runs in a row (CLI)
InitTwice == Init /\ frontend = "cli"

NextTwice ==
    \/ Start
    \/ Rerun
    \/ NextChunk
    \/ SubmitCheck
    \/ SubmitChunk
    \/ \E j \in 1..Len(futures) : WorkerTake(j)
    \/ \E j \in 1..Len(futures) : WorkerStart(j)
    \/ \E j \in 1..Len(futures) : WorkerPoll(j)
    \/ \E j \in 1..Len(futures) : WorkerOpen(j)
    \/ \E j \in 1..Len(futures) : WorkerCall(j)
    \/ \E j \in 1..Len(futures) : WorkerSave(j)
    \/ \E j \in 1..Len(futures) : WorkerLog(j)
    \/ \E j \in 1..Len(futures) : WorkerStep(j)
    \/ CollectCheck
    \/ CollectResult
    \/ CollectEntry
    \/ Join
    \/ Except
    \/ Line537
    \/ Line563

SpecTwice == InitTwice /\ [][NextTwice]_vars

\* ----------------------------------------------------------------- claims
Originals == {full_path(f) : f \in Files}
Processed == {files_to_process[i] : i \in 1..Len(files_to_process)}

\* Every chunk was submitted and every future returned its list.
AllTasksSucceeded ==
    /\ files_to_process # <<>>
    /\ Len(futures) = Len(Chunks)
    /\ \A j \in 1..Len(futures) : futures[j].st = "done"

\* The outputs translate_subtitle_file can write for a content.
Outputs(content) ==
    {translate_subtitle_file(content, stubs).output :
        stubs \in [1..Len(content) -> WorkerStubs]}

\* C1: after a run in which a worker failed and rollback() was invoked, every
\* original file under the input folder holds its pre-run content.
C1_RollbackKeepsOriginals ==
    rolled_back => \A p \in Originals : fs[p] = pre_fs[p]

\* C2: when every task of a run succeeded and cancellation was not requested,
\* at the end of the run no successful file is left uncommitted: its temp
\* output was moved over the original and its backup holds the pre-run
\* content.
C2_AllSuccessesCommitted ==
    (pc \in Ended /\ AllTasksSucceeded /\ ~cancel_set) =>
        \A f \in Processed :
            /\ fs[temp_output_path(f)] = NoFile
            /\ fs[full_path(f)] \in Outputs(pre_fs[full_path(f)])
            /\ fs[backup_path(f)] = pre_fs[full_path(f)]

\* C3: the second of two runs in a row on an unchanged folder, the first of
\* which went through (Rerun starts only after such a run), calls the
\* transform service zero times.
C3_SecondRunCallsNothing ==
    run = 2 => transform_calls = 0

\* C4: the store file is written only after every file of the batch has been
\* committed, and a run in which rollback was invoked or that ended in failure
\* never wrote it: the file is as it was before the run.
C4_StoreWrittenLast ==
    /\ store_saved =>
           \A f \in Processed :
               fs[temp_output_path(f)] = NoFile /\ fs[backup_path(f)] # NoFile
    /\ (rolled_back \/ (pc = "raised" /\ exc # "none")) =>
           ~store_saved /\ store_file = pre_store

\* C5: every submitted chunk is processed by exactly one translate_batch
\* call: the call of the j-th future works on the j-th chunk.
C5_OneWorkerPerChunk ==
    \A j \in 1..Len(futures) :
        futures[j].st \notin {"queued", "taken"} => futures[j].arg = j

\* C6: in overwrite mode an original whose content differs from its pre-run
\* content has a backup that holds the pre-run content.
C6_BackupBeforeOverwrite ==
    OVERWRITE_ORIGINAL =>
        \A f \in Files :
            fs[full_path(f)] # pre_fs[full_path(f)] =>
                fs[backup_path(f)] = pre_fs[full_path(f)]

\* C7: if a task of a submitted chunk failed, the run ends with rollback()
\* invoked and an error raised to the caller, no file committed and the store
\* not saved.
C7_FailureRollsBack ==
    (pc \in Ended /\ \E j \in 1..Len(futures) : futures[j].error = "NameError")
        => /\ rolled_back
           /\ pc = "raised" /\ exc # "none"
           /\ \A f \in Files :
                  /\ fs[full_path(f)] = pre_fs[full_path(f)]
                  /\ fs[backup_path(f)] = pre_fs[backup_path(f)]
                  /\ fs[dest_output_path(f)] = pre_fs[dest_output_path(f)]
           /\ ~store_saved

\* C8: a worker never reports Success for a file whose output holds a cue
\* left untranslated because its retries were exhausted.
C8_ExhaustedCueFailsTask ==
    \A j \in 1..Len(futures) :
        \A i \in 1..futures[j].done :
            Chunks[futures[j].arg][i] \notin untranslated

\* C9: with max_retries >= 1, a transform that fails k < max_retries times and
\* then answers is called k + 1 times and its answer is returned; one that
\* always fails is called max_retries times and the error is raised; there is
\* never a call beyond max_retries, and every sleep lies between two calls.
C9_BoundedRetry ==
    (retry_out.done /\ retry_in.max_retries >= 1) =>
        LET k == retry_in.stub
            n == retry_in.max_retries
            t == retry_out.trace
        IN /\ k < n => /\ NumCalls(t) = k + 1
                       /\ ~retry_out.raised
                       /\ retry_out.text = ServiceAnswer(retry_in.text)
           /\ k >= n => /\ NumCalls(t) = n
                        /\ retry_out.raised
           /\ NumCalls(t) <= n
           /\ \A i \in 1..Len(t) :
                  t[i] = "sleep" =>
                      /\ 1 < i /\ i < Len(t)
                      /\ t[i - 1] = "call" /\ t[i + 1] = "call"

\* A loop that slept between its attempts and gave up at the last one.
C9_Witness ==
    /\ retry_out.done
    /\ retry_out.raised
    /\ retry_in.max_retries = MAX_RETRIES
    /\ retry_out.trace = <<"call", "sleep", "call", "sleep", "call">>

\* The cancel signal is set and no chunk has been submitted so far.
CancelledBeforeSubmit ==
    /\ run >= 1
    /\ frontend = "gui"
    /\ cancel_set
    /\ futures = <<>>

\* No file was written and no entry of the store, on disk or in memory, has
\* changed since the run started.
NothingCommitted ==
    /\ fs = pre_fs
    /\ store_file = pre_store
    /\ translated_checksums = IF input_folder.writable
                              THEN load_translated_checksums(pre_store)
                              ELSE EmptyChecksums

\* C10 as the specification states it: once the cancel signal is set with no
\* chunk submitted, no chunk is ever submitted, no file is written and no
\* entry of the store changes, up to and including the end of batch_translate.
C10_CancelBeforeSubmit ==
    [][CancelledBeforeSubmit => (CancelledBeforeSubmit' /\ NothingCommitted')]_vars

\* The cancel signal is set, at most one chunk was or is about to be submitted
\* (the one whose look at the flag, line 501, came before the signal), its
\* call has not entered a file, and nothing was written.
CancelledEarly ==
    /\ run >= 1
    /\ frontend = "gui"
    /\ cancel_set
    /\ Len(futures) + (IF pc = "line504" THEN 1 ELSE 0) <= 1
    /\ \A j \in 1..Len(futures) :
           /\ futures[j].st \in {"queued", "taken", "running", "raised"}
           /\ futures[j].done = 0
           /\ futures[j].error \in {"none", "Exception"}
    /\ log = <<>>
    /\ transform_calls = 0
    /\ NothingCommitted

\* C10, amended: once the cancel signal is set with no chunk submitted, at
\* most one chunk is submitted afterwards, the one whose look at the flag
\* preceded the signal; its call raises at its first look at the flag without
\* entering a file, no file is written and no entry of the store changes, up
\* to and including the end of batch_translate.
C10_CancelBeforeSubmitAmended ==
    [][(CancelledBeforeSubmit \/ CancelledEarly) => CancelledEarly']_vars

\* The run has ended with the one chunk submitted after the signal: its call
\* raised before its first file and nothing was written.
C10_Witness ==
    /\ CancelledEarly
    /\ pc \in Ended
    /\ Len(futures) = 1
    /\ futures[1].st = "raised"
    /\ futures[1].error = "Exception"

\* C11: for an input folder that is not writable or that is a protected
\* system path, batch_translate raises PermissionError before any work: no
\* file is fingerprinted, no chunk submitted, no file written and the store
\* not saved.
C11_PermissionErrorBeforeWork ==
    (run >= 1 /\ (~input_folder.writable \/ input_folder.system)) =>
        /\ pc = "raised" /\ exc = "PermissionError"
        /\ files_to_process = <<>>
        /\ futures = <<>>
        /\ fs = pre_fs
        /\ ~store_saved /\ store_file = pre_store

\* The file at which the call of future j raised, and the files the calls of
\* the run took through translate_subtitle_file.
FailedFile(j) == Chunks[futures[j].arg][futures[j].done + 1]
FailedFiles ==
    {FailedFile(j) : j \in {i \in 1..Len(futures) :
                               futures[i].error = "NameError"}}
WorkedFiles ==
    UNION {{Chunks[futures[j].arg][i] : i \in 1..futures[j].done} :
              j \in 1..Len(futures)}

\* C13: a file that cannot be read or parsed fails only its own task: at the
\* end of a run without cancellation every other file of the run was
\* processed and the run was not aborted (every chunk submitted, no
\* rollback).
C13_FailureIsolated ==
    (pc \in Ended /\ ~cancel_set /\ FailedFiles # {}) =>
        /\ Processed \ FailedFiles \subseteq WorkedFiles
        /\ Len(futures) = Len(Chunks)
        /\ ~rolled_back

\* The run failed or was cancelled: the folder is refused, a call of
\* translate_batch raised, or the cancel signal is set.
RunFailed ==
    \/ ~input_folder.writable
    \/ input_folder.system
    \/ \E j \in 1..Len(futures) : futures[j].st = "raised"
    \/ cancel_set

\* C14: a run in which every task succeeded and cancellation was not
\* requested (no flag passed, or a flag never set) ends with batch_translate
\* returning normally; it raises only when the run failed.
C14_SuccessReturnsNormally ==
    /\ (pc \in Ended /\ AllTasksSucceeded /\ ~RunFailed) =>
           pc = "returned" /\ exc = "none"
    /\ pc = "raised" => RunFailed

\* C15: rollback() is best-effort: when the inversion of one entry fails, the
\* entries before it are still processed, so after rollback no "move" entry of
\* the log is left with its source in place.
C15_RollbackBestEffort ==
    rolled_back =>
        \A k \in 1..Len(log) :
            log[k][1] = "move" => fs[log[k][2]] = NoFile

\* C16: once the cancel signal is set no further chunk is submitted, and no
\* submitted chunk is aborted by the cancellation: each runs to completion
\* for all of its files.
C16_SubmittedChunksComplete ==
    [][(frontend = "gui" /\ cancel_set) =>
           /\ Len(futures') = Len(futures)
           /\ \A j \in 1..Len(futures) : futures'[j].error # "Exception"]_vars

\* C17: when cancellation was requested during a run, at its end no temp
\* output is left, nothing was committed (originals, backups, destination
\* files and the store are as before the run) and rollback moved no file.
C17_CancelDiscards ==
    (pc \in Ended /\ frontend = "gui" /\ cancel_set) =>
        /\ \A f \in Files : fs[temp_output_path(f)] = NoFile
        /\ \A f \in Files :
               /\ fs[full_path(f)] = pre_fs[full_path(f)]
               /\ fs[backup_path(f)] = pre_fs[backup_path(f)]
               /\ fs[dest_output_path(f)] = pre_fs[dest_output_path(f)]
        /\ store_file = pre_store

\* The number of tasks completed so far by all the calls of translate_batch.
CompletedCount ==
    Cardinality(UNION {{<<j, i>> : i \in 1..futures[j].done} :
                           j \in 1..Len(futures)})

\* C18: the progress callback is invoked after each task with the number of
\* tasks completed so far by all workers and the number of files selected for
\* the whole run (so the last call of a fully successful run is
\* (total, total)).
C18_ProgressCountsRun ==
    (frontend = "gui" /\ progress # <<0, 0>>) =>
        progress = <<CompletedCount, Len(files_to_process)>>

\* C19: a step of a call of translate_batch changes no file but the temp
\* output of the task it is at: a completed task wrote
\* temp_translated/<relative path>, a call that raised wrote nothing, and the
\* originals and everything else outside the temp folder are as they were.
C19_WorkerWritesOnlyTemp ==
    [][\A j \in 1..Len(futures) :
           (/\ Len(futures') = Len(futures)
            /\ futures[j].st \in InCall
            /\ futures'[j] # futures[j]) =>
               LET f == Chunks[futures[j].arg][futures[j].done + 1]
               IN /\ \A p \in Paths :
                         fs'[p] # fs[p] => p = <<"temp_translated", f>>
                  /\ futures'[j].st = "line449" =>
                         fs'[<<"temp_translated", f>>] \in
                             Outputs(fs[full_path(f)])
                  /\ futures[j].st # "save" => fs' = fs
                  /\ futures'[j].st = "raised" => fs' = fs]_vars

\* A call has completed a task: its temp output is written and every file
\* outside the temp folder is as before the run.
C19_Witness ==
    /\ \E j \in 1..Len(futures) :
           /\ futures[j].done >= 1
           /\ fs[<<"temp_translated", Chunks[futures[j].arg][1]>>] # NoFile
    /\ \A p \in Paths : p[1] # "temp_translated" => fs[p] = pre_fs[p]

\* C20: at the end of every run, whatever its outcome, the temp folder holds
\* no temp output.
C20_TempPurged ==
    (run >= 1 /\ pc \in Ended) =>
        \A f \in Files : fs[temp_output_path(f)] = NoFile

\* C21: with the retry limit configured to N >= 1 (--max-retries N sets
\* MAX_RETRIES = N), a transform call makes at most N attempts, and a
\* transform that fails at every attempt is attempted exactly N times for the
\* cue.
C21_ConfiguredRetryLimit ==
    (main_out.done /\ main_out.max_retries >= 1) =>
        /\ main_out.calls <= main_out.max_retries
        /\ retry_in.stub = MaxFails =>
               main_out.calls = main_out.max_retries

\* C22: rollback() and the commit phase start only after every submitted
\* call of translate_batch has ended: while the main thread is at the handler
\* of line 533 or past the `with` block, and ever after rollback or the save
\* of the store, no call is queued or running, so none can append to the log
\* or write a temp file.
C22_RollbackAfterWorkers ==
    (pc \in {"except", "line537", "line563"} \/ rolled_back \/ store_saved) =>
        \A j \in 1..Len(futures) : futures[j].st \in {"done", "raised"}

\* rollback() is about to start: the result of a future raised while a later
\* chunk was submitted, and that chunk's call has worked since.
C22_Witness ==
    /\ pc = "except"
    /\ fut_idx < Len(futures)
    /\ futures[fut_idx].st = "raised"
    /\ \E j \in (fut_idx + 1)..Len(futures) :
           futures[j].st = "done" /\ futures[j].done >= 1

\* The "move" entries of the log for file f.
MoveEntries(f) ==
    {k \in 1..Len(log) :
        log[k] = <<"move", temp_output_path(f), full_path(f)>>}

\* C23: the log never holds more than one "move" entry for a file, and once
\* all calls have ended and their results were collected the number of
\* entries is the number of successful tasks.
C23_OneMovePerFile ==
    /\ \A f \in Files : Cardinality(MoveEntries(f)) <= 1
    /\ (pc = "line537" /\ ~cancel_set) => Len(log) = CompletedCount

====
